---- MODULE Spec2Model ----
(***************************************************************************)
(* Model of app/main.py of the Splitwise Telegram connector: the identity  *)
(* resolver (match_name_to_user_id), the normalizer/reconciler             *)
(* (normalize_expense), the ledger payload builder                         *)
(* (create_splitwise_expense) and the /telegram/webhook handler with its   *)
(* per-conversation pending_new_friend map.                                *)
(*                                                                         *)
(* Python values are tagged records [t, s, n]: t is the type tag, s the    *)
(* characters of a str (a sequence of one-character strings) and n the     *)
(* number of an int.  Money is counted in hundredths of a currency unit,   *)
(* so the code's 0.01 is 1 (Eps).                                          *)
(***************************************************************************)
EXTENDS Integers, Sequences, FiniteSets, TLC

VARIABLES
    pending_new_friend,  \* main.py:61  chat id -> <<>> or <<pending record>>
    user_tokens,         \* main.py:43  chat id -> <<>> or <<token record>>
    h                    \* the request being handled: its locals (found is the pending
                         \* entry as the handler found it) and what it has done so far

vars == <<pending_new_friend, user_tokens, h>>

-----------------------------------------------------------------------------
(* Python values *)

None == [t |-> "none", s |-> <<>>, n |-> 0]
\* a key that is absent from a dict (dict.get gives None, dict[...] raises KeyError)
Missing == [t |-> "missing", s |-> <<>>, n |-> 0]
PyStr(chars) == [t |-> "str", s |-> chars, n |-> 0]
PyInt(k) == [t |-> "int", s |-> <<>>, n |-> k]

\* dict.get(key): an absent key reads as None
Get(v) == IF v.t = "missing" THEN None ELSE v

\* bool(v) for the values used here
Truthy(v) ==
    CASE v.t = "str" -> v.s # <<>>
      [] v.t = "int" -> v.n # 0
      [] OTHER -> FALSE

-----------------------------------------------------------------------------
(* str methods *)

UpperAlpha == <<"A","B","C","D","E","F","G","H","I","J","K","L","M",
                "N","O","P","Q","R","S","T","U","V","W","X","Y","Z">>
LowerAlpha == <<"a","b","c","d","e","f","g","h","i","j","k","l","m",
                "n","o","p","q","r","s","t","u","v","w","x","y","z">>

LowerChar(c) ==
    IF \E i \in 1..26 : UpperAlpha[i] = c
    THEN LowerAlpha[CHOOSE i \in 1..26 : UpperAlpha[i] = c]
    ELSE c

\* str.lower()
Lower(cs) == [i \in 1..Len(cs) |-> LowerChar(cs[i])]

WhiteSpace == {" ", "\t", "\n"}

RECURSIVE LStrip(_)
LStrip(cs) ==
    IF cs # <<>> /\ Head(cs) \in WhiteSpace THEN LStrip(Tail(cs)) ELSE cs

RECURSIVE RStrip(_)
RStrip(cs) ==
    IF cs # <<>> /\ cs[Len(cs)] \in WhiteSpace
    THEN RStrip(SubSeq(cs, 1, Len(cs) - 1))
    ELSE cs

\* str.strip()
Strip(cs) == RStrip(LStrip(cs))

\* needle in hay  (the empty string is in every string)
Contains(needle, hay) ==
    \E i \in 0..(Len(hay) - Len(needle)) :
        SubSeq(hay, i + 1, i + Len(needle)) = needle

\* str.startswith
StartsWith(cs, prefix) ==
    Len(cs) >= Len(prefix) /\ SubSeq(cs, 1, Len(prefix)) = prefix

DigitChars == <<"0","1","2","3","4","5","6","7","8","9">>

RECURSIVE Digits(_)
Digits(k) ==
    IF k < 10 THEN <<DigitChars[k + 1]>>
    ELSE Digits(k \div 10) \o <<DigitChars[(k % 10) + 1]>>

\* str(v) of an int or a str, as characters
StrOf(v) ==
    CASE v.t = "int" -> IF v.n < 0 THEN <<"-">> \o Digits(0 - v.n) ELSE Digits(v.n)
      [] v.t = "str" -> v.s
      [] OTHER -> <<"N","o","n","e">>

\* str.split(): the words between runs of whitespace
RECURSIVE SplitFrom(_, _, _)
SplitFrom(cs, cur, acc) ==
    IF cs = <<>> THEN (IF cur = <<>> THEN acc ELSE Append(acc, cur))
    ELSE IF Head(cs) \in WhiteSpace
         THEN SplitFrom(Tail(cs), <<>>, IF cur = <<>> THEN acc ELSE Append(acc, cur))
         ELSE SplitFrom(Tail(cs), Append(cur, Head(cs)), acc)

Split(cs) == SplitFrom(cs, <<>>, <<>>)

-----------------------------------------------------------------------------
(* match_name_to_user_id, main.py:277-300 *)

\* (friend.get(field) or "").lower()
NameOrEmpty(v) == IF v.t = "str" THEN Lower(v.s) ELSE <<>>

\* the first friend, in roster order, whose first or last name contains name
RECURSIVE FirstFriendMatch(_, _)
FirstFriendMatch(name, friends) ==
    IF friends = <<>> THEN None
    ELSE IF Contains(name, NameOrEmpty(Head(friends).first_name))
            \/ Contains(name, NameOrEmpty(Head(friends).last_name))
         THEN Head(friends).id
         ELSE FirstFriendMatch(name, Tail(friends))

SelfWords == {<<"m","e">>, <<"m","i","n","e">>, <<"s","e","l","f">>, <<"i">>}

\* the roster scan of main.py:295-299 ahead of the self tests of main.py:291-294
match_name_to_user_id_str_roster_first(name, friends, self_user_id, self_name) ==
    LET nm == Strip(Lower(StrOf(name)))
        self_names == SelfWords \cup
                      (IF Truthy(self_name) THEN {Lower(StrOf(self_name))} ELSE {})
    IN  IF FirstFriendMatch(nm, friends) # None THEN FirstFriendMatch(nm, friends)
        ELSE IF Truthy(self_user_id) /\ nm \in self_names THEN self_user_id
        ELSE IF Truthy(self_name) /\ nm = Lower(StrOf(self_name)) THEN self_user_id
        ELSE None

\* main.py:287-300: a name that is not an int
match_name_to_user_id_str(name, friends, self_user_id, self_name) ==
    LET nm == Strip(Lower(StrOf(name)))
        self_names == SelfWords \cup
                      (IF Truthy(self_name) THEN {Lower(StrOf(self_name))} ELSE {})
    IN  IF Truthy(self_user_id) /\ nm \in self_names THEN self_user_id
        ELSE IF Truthy(self_name) /\ nm = Lower(StrOf(self_name)) THEN self_user_id
        ELSE FirstFriendMatch(nm, friends)

match_name_to_user_id(name, friends, self_user_id, self_name) ==
    IF name.t = "int"
    THEN IF Truthy(self_user_id) /\ name = self_user_id THEN self_user_id
         ELSE IF \E i \in 1..Len(friends) : Get(friends[i].id) = name THEN name
         ELSE None
    ELSE match_name_to_user_id_str(name, friends, self_user_id, self_name)

-----------------------------------------------------------------------------
(* dicts keyed by str(uid): functions from str values to values *)

EmptyDict == [k \in {} |-> None]

DictSet(d, key, val) ==
    [k \in (DOMAIN d) \cup {key} |-> IF k = key THEN val ELSE d[k]]

\* d.get(key, default)
DictGet(d, key, default) == IF key \in DOMAIN d THEN d[key] ELSE default

\* str(uid), the key of uid in shares
Key(uid) == PyStr(StrOf(uid))

RECURSIVE SumOver(_, _)
SumOver(d, keys) ==
    IF keys = {} THEN 0
    ELSE LET k == CHOOSE x \in keys : TRUE
         IN  d[k].n + SumOver(d, keys \ {k})

\* sum(d.values()); a TypeError when a value is not a number
AllNumeric(d) == \A k \in DOMAIN d : d[k].t = "int"
SumValues(d) == SumOver(d, DOMAIN d)

\* x in list
InList(x, xs) == \E i \in 1..Len(xs) : xs[i] = x

Abs(x) == IF x < 0 THEN 0 - x ELSE x

\* 0.01 in hundredths, main.py:356 and main.py:241
Eps == 1

-----------------------------------------------------------------------------
(* normalize_expense, main.py:302-367 *)

\* the participants loop, main.py:317-331: "ok" at the end of the list, "break"
\* at the first unmatched name (unknown), "no_name" at an entry without a name
RECURSIVE ParticipantsLoop(_, _, _, _, _, _, _)
ParticipantsLoop(parts, friends, self_user_id, self_name, allow_fake_id, owed_by, shares) ==
    IF parts = <<>>
    THEN [st |-> "ok", unknown |-> None, owed_by |-> owed_by, shares |-> shares]
    ELSE LET part  == Head(parts)
             name  == Get(part.name)
             share == Get(part.share)
             found == match_name_to_user_id(name, friends, self_user_id, self_name)
             uid   == IF found # None THEN found
                      ELSE IF part.id.t # "missing" THEN part.id
                      ELSE PyStr(<<"n","e","w",":">> \o StrOf(name))
         IN  IF name = None
             THEN [st |-> "no_name", unknown |-> None, owed_by |-> owed_by, shares |-> shares]
             ELSE IF found = None /\ ~allow_fake_id
             THEN [st |-> "break", unknown |-> name, owed_by |-> owed_by, shares |-> shares]
             ELSE ParticipantsLoop(Tail(parts), friends, self_user_id, self_name,
                                   allow_fake_id, Append(owed_by, uid),
                                   IF share # None THEN DictSet(shares, Key(uid), share)
                                   ELSE shares)

NoExpense(status, unknown) ==
    [status |-> status, unknown |-> unknown, cost |-> None, paid_by |-> None,
     owed_by |-> <<>>, shares |-> EmptyDict]

\* Reconcile without the adjustment of main.py:356-359
Reconcile_no_absorb(cost, paid_by, owed_by, shares, self_user_id) ==
    IF cost.t # "int" \/ ~AllNumeric(shares)
    THEN NoExpense("type_error", None)
    ELSE IF ~InList(self_user_id, owed_by)
    THEN LET remaining == cost.n - SumValues(shares)
         IN  IF remaining < 0 THEN NoExpense("shares_exceed", None)
             ELSE [status |-> "ok", unknown |-> None, cost |-> cost, paid_by |-> paid_by,
                   owed_by |-> Append(owed_by, self_user_id),
                   shares |-> DictSet(shares, Key(self_user_id), PyInt(remaining))]
    ELSE [status |-> "ok", unknown |-> None, cost |-> cost, paid_by |-> paid_by,
          owed_by |-> owed_by, shares |-> shares]

\* Reconcile without the append of main.py:351
Reconcile_no_self(cost, paid_by, owed_by, shares, self_user_id) ==
    IF cost.t # "int" \/ ~AllNumeric(shares)
    THEN NoExpense("type_error", None)
    ELSE IF ~InList(self_user_id, owed_by)
    THEN LET remaining == cost.n - SumValues(shares)
         IN  IF remaining < 0 THEN NoExpense("shares_exceed", None)
             ELSE [status |-> "ok", unknown |-> None, cost |-> cost, paid_by |-> paid_by,
                   owed_by |-> owed_by,
                   shares |-> DictSet(shares, Key(self_user_id), PyInt(remaining))]
    ELSE LET total_shares == SumValues(shares)
             diff == cost.n - total_shares
         IN  [status |-> "ok", unknown |-> None, cost |-> cost, paid_by |-> paid_by,
              owed_by |-> owed_by,
              shares |-> IF Abs(total_shares - cost.n) > Eps
                         THEN DictSet(shares, Key(self_user_id),
                                      PyInt(DictGet(shares, Key(self_user_id), PyInt(0)).n + diff))
                         ELSE shares]

\* Reconcile clamping a negative remainder instead of the raise of main.py:349-350
Reconcile_clamp(cost, paid_by, owed_by, shares, self_user_id) ==
    IF cost.t # "int" \/ ~AllNumeric(shares)
    THEN NoExpense("type_error", None)
    ELSE IF ~InList(self_user_id, owed_by)
    THEN LET remaining == cost.n - SumValues(shares)
         IN  [status |-> "ok", unknown |-> None, cost |-> cost, paid_by |-> paid_by,
              owed_by |-> Append(owed_by, self_user_id),
              shares |-> DictSet(shares, Key(self_user_id),
                                 PyInt(IF remaining < 0 THEN 0 ELSE remaining))]
    ELSE LET total_shares == SumValues(shares)
             diff == cost.n - total_shares
         IN  [status |-> "ok", unknown |-> None, cost |-> cost, paid_by |-> paid_by,
              owed_by |-> owed_by,
              shares |-> IF Abs(total_shares - cost.n) > Eps
                         THEN DictSet(shares, Key(self_user_id),
                                      PyInt(DictGet(shares, Key(self_user_id), PyInt(0)).n + diff))
                         ELSE shares]

\* Reconcile giving the added user an equal part instead of the remainder of main.py:348-352
Reconcile_equal_part(cost, paid_by, owed_by, shares, self_user_id) ==
    IF cost.t # "int" \/ ~AllNumeric(shares)
    THEN NoExpense("type_error", None)
    ELSE IF ~InList(self_user_id, owed_by)
    THEN LET remaining == cost.n - SumValues(shares)
         IN  IF remaining < 0 THEN NoExpense("shares_exceed", None)
             ELSE [status |-> "ok", unknown |-> None, cost |-> cost, paid_by |-> paid_by,
                   owed_by |-> Append(owed_by, self_user_id),
                   shares |-> DictSet(shares, Key(self_user_id),
                                      PyInt(cost.n \div (Len(owed_by) + 1)))]
    ELSE LET total_shares == SumValues(shares)
             diff == cost.n - total_shares
         IN  [status |-> "ok", unknown |-> None, cost |-> cost, paid_by |-> paid_by,
              owed_by |-> owed_by,
              shares |-> IF Abs(total_shares - cost.n) > Eps
                         THEN DictSet(shares, Key(self_user_id),
                                      PyInt(DictGet(shares, Key(self_user_id), PyInt(0)).n + diff))
                         ELSE shares]

\* Reconcile adjusting whatever the difference, without the test of main.py:356
Reconcile_always_adjust(cost, paid_by, owed_by, shares, self_user_id) ==
    IF cost.t # "int" \/ ~AllNumeric(shares)
    THEN NoExpense("type_error", None)
    ELSE IF ~InList(self_user_id, owed_by)
    THEN LET remaining == cost.n - SumValues(shares)
         IN  IF remaining < 0 THEN NoExpense("shares_exceed", None)
             ELSE [status |-> "ok", unknown |-> None, cost |-> cost, paid_by |-> paid_by,
                   owed_by |-> Append(owed_by, self_user_id),
                   shares |-> DictSet(shares, Key(self_user_id), PyInt(remaining))]
    ELSE LET total_shares == SumValues(shares)
             diff == cost.n - total_shares
         IN  [status |-> "ok", unknown |-> None, cost |-> cost, paid_by |-> paid_by,
              owed_by |-> owed_by,
              shares |-> DictSet(shares, Key(self_user_id),
                                 PyInt(DictGet(shares, Key(self_user_id), PyInt(0)).n + diff))]

\* main.py:345-367: add the requesting user or absorb the difference
Reconcile(cost, paid_by, owed_by, shares, self_user_id) ==
    IF cost.t # "int" \/ ~AllNumeric(shares)
    THEN NoExpense("type_error", None)
    ELSE IF ~InList(self_user_id, owed_by)
    THEN LET remaining == cost.n - SumValues(shares)
         IN  IF remaining < 0 THEN NoExpense("shares_exceed", None)
             ELSE [status |-> "ok", unknown |-> None, cost |-> cost, paid_by |-> paid_by,
                   owed_by |-> Append(owed_by, self_user_id),
                   shares |-> DictSet(shares, Key(self_user_id), PyInt(remaining))]
    ELSE LET total_shares == SumValues(shares)
             diff == cost.n - total_shares
         IN  [status |-> "ok", unknown |-> None, cost |-> cost, paid_by |-> paid_by,
              owed_by |-> owed_by,
              shares |-> IF Abs(total_shares - cost.n) > Eps
                         THEN DictSet(shares, Key(self_user_id),
                                      PyInt(DictGet(shares, Key(self_user_id), PyInt(0)).n + diff))
                         ELSE shares]

\* normalize_expense running the participants loop and the pending store of
\* main.py:317-341 before the payer test of main.py:311-313
normalize_expense_loop_first(parsed, friends, self_user_id, self_name, chat_id, allow_fake_id) ==
    IF ~parsed.isdict THEN NoExpense("no_data", None)
    ELSE IF Get(parsed.payer) = None THEN NoExpense("no_payer", None)
    ELSE LET paid_by == match_name_to_user_id(Get(parsed.payer), friends, self_user_id, self_name)
             loop == ParticipantsLoop(parsed.participants, friends, self_user_id, self_name,
                                      allow_fake_id, <<>>, EmptyDict)
             cost == Get(parsed.amount)
         IN  IF loop.st = "no_name" THEN NoExpense("no_participant_name", None)
             ELSE IF loop.st = "break" /\ Truthy(loop.unknown) /\ Truthy(chat_id)
             THEN NoExpense("pending", loop.unknown)
             ELSE IF paid_by = None THEN NoExpense("payer_unmatched", None)
             ELSE IF cost = None THEN NoExpense("no_amount", None)
             ELSE Reconcile(cost, paid_by, loop.owed_by, loop.shares, self_user_id)

\* The result: status "ok" with the expense, "pending" (HTTP 409, the caller's
\* pending_new_friend entry is to be stored for unknown), or the error raised.
normalize_expense(parsed, friends, self_user_id, self_name, chat_id, allow_fake_id) ==
    IF ~parsed.isdict THEN NoExpense("no_data", None)
    ELSE IF Get(parsed.payer) = None THEN NoExpense("no_payer", None)
    ELSE LET paid_by == match_name_to_user_id(Get(parsed.payer), friends, self_user_id, self_name)
             loop == ParticipantsLoop(parsed.participants, friends, self_user_id, self_name,
                                      allow_fake_id, <<>>, EmptyDict)
             cost == Get(parsed.amount)
         IN  IF paid_by = None THEN NoExpense("payer_unmatched", None)
             ELSE IF loop.st = "no_name" THEN NoExpense("no_participant_name", None)
             ELSE IF loop.st = "break" /\ Truthy(loop.unknown) /\ Truthy(chat_id)
             THEN NoExpense("pending", loop.unknown)
             ELSE IF cost = None THEN NoExpense("no_amount", None)
             ELSE Reconcile(cost, paid_by, loop.owed_by, loop.shares, self_user_id)

-----------------------------------------------------------------------------
(* create_splitwise_expense, main.py:221-267: the payload sent to the ledger *)

\* "{:.2f}".format(cost / n): the nearest hundredth, ties to even
FormatSplit(cost, k) ==
    LET q == cost \div k
        r == cost % k
    IN  IF 2 * r < k THEN q
        ELSE IF 2 * r > k THEN q + 1
        ELSE IF q % 2 = 0 THEN q ELSE q + 1

\* main.py:235-244: the last participant absorbs a difference above 0.01
AdjustLast(cost, owed_by, shares) ==
    LET share_sum == LET RECURSIVE S(_)
                         S(i) == IF i = 0 THEN 0
                                 ELSE DictGet(shares, Key(owed_by[i]), PyInt(0)).n + S(i - 1)
                     IN  S(Len(owed_by))
        diff == cost - share_sum
        last_uid == owed_by[Len(owed_by)]
    IN  IF Abs(diff) > Eps /\ owed_by # <<>>
        THEN DictSet(shares, Key(last_uid),
                     PyInt(DictGet(shares, Key(last_uid), PyInt(0)).n + diff))
        ELSE shares

\* main.py:246-258: one users__i entry per element of owed_by
create_splitwise_expense(expense) ==
    LET cost == expense.cost.n
        owed_by == expense.owed_by
        shares == AdjustLast(cost, owed_by, expense.shares)
    IN  [cost |-> cost,
         users |-> [i \in 1..Len(owed_by) |->
                      [user_id |-> owed_by[i],
                       paid_share |-> IF owed_by[i] = expense.paid_by THEN cost ELSE 0,
                       owed_share |-> IF Key(owed_by[i]) \in DOMAIN shares
                                      THEN shares[Key(owed_by[i])].n
                                      ELSE FormatSplit(cost, Len(owed_by))]]]

-----------------------------------------------------------------------------
(* parse_command_regex, main.py:715-746: the command name, NoCommand (None)
   or IndexErr (text[1:].split()[0] of a text with nothing after the slash) *)

NoCommand == <<>>
IndexErr == <<"!">>

WordChars == {UpperAlpha[i] : i \in 1..26} \cup {LowerAlpha[i] : i \in 1..26}
             \cup {DigitChars[i] : i \in 1..10} \cup {"_"}

\* \w+
IsWord(w) == w # <<>> /\ \A i \in 1..Len(w) : w[i] \in WordChars

w_show == <<"s","h","o","w">>
w_get == <<"g","e","t">>
w_how == <<"h","o","w">>
w_much == <<"m","u","c","h">>
w_balance == <<"b","a","l","a","n","c","e">>
w_balances == <<"b","a","l","a","n","c","e","s">>
w_do == <<"d","o">>
w_i == <<"i">>
w_owe == <<"o","w","e">>
w_with == <<"w","i","t","h">>
w_me == <<"m","e">>
w_expenses == <<"e","x","p","e","n","s","e","s">>
w_expense == <<"e","x","p","e","n","s","e">>
w_delete == <<"d","e","l","e","t","e">>
w_the == <<"t","h","e">>
w_last == <<"l","a","s","t">>

parse_command_regex(text) ==
    LET ws == Split(Lower(text))
        k == Len(ws)
        rest == Split(SubSeq(text, 2, Len(text)))
        heads == {<<w_show>>, <<w_get>>, <<w_how, w_much>>}
        mids == {<<w_balance>>, <<w_do, w_i, w_owe>>}
    IN  IF StartsWith(text, <<"/">>)
        THEN (IF rest = <<>> THEN IndexErr ELSE Lower(rest[1]))
        ELSE IF k = 2 /\ ws[1] \in {w_show, w_get} /\ ws[2] \in {w_balance, w_balances}
        THEN <<"s","h","o","w","_","b","a","l","a","n","c","e","s">>
        ELSE IF \E hd \in heads, md \in mids :
                   /\ k \in {Len(hd) + Len(md) + 1, Len(hd) + Len(md) + 2}
                   /\ SubSeq(ws, 1, Len(hd) + Len(md)) = hd \o md
                   /\ IsWord(ws[k])
                   /\ (k = Len(hd) + Len(md) + 2 => ws[k - 1] = w_with)
        THEN <<"s","h","o","w","_","b","a","l","a","n","c","e","_","w","i","t","h","_",
               "f","r","i","e","n","d">>
        ELSE IF /\ k \in {3, 4} /\ ws[1] = w_show /\ ws[k] = w_expenses
                /\ IsWord(ws[k - 1]) /\ (k = 4 => ws[2] = w_me)
        THEN <<"s","h","o","w","_","e","x","p","e","n","s","e","s","_","b","y","_",
               "c","a","t","e","g","o","r","y">>
        ELSE IF \/ ws = <<w_delete, w_last, w_expense>>
                \/ ws = <<w_delete, w_the, w_last, w_expense>>
        THEN <<"d","e","l","e","t","e","_","e","x","p","e","n","s","e">>
        ELSE NoCommand

-----------------------------------------------------------------------------
(* The inputs *)

\* the longest participants list a draft holds, the longest roster
MaxParts == 2
MaxRoster == 2

s_me == <<"m","e">>
s_John == <<"J","o","h","n">>
s_Doe == <<"D","o","e">>
s_Nora == <<"N","o","r","a">>
s_Bobb == <<"B","o","b","b">>
s_Sam == <<"S","a","m">>
s_Charlie == <<"C","h","a","r","l","i","e">>

\* conversations (str(chat.id)) and the Splitwise account that authorizes each
Chats == {<<"1","1","1">>}
Account(c) == [splitwise_id |-> PyInt(12345), splitwise_name |-> PyStr(s_Sam)]

\* the friends the ledger may list (ids unique), in any order
FriendPool ==
    {[id |-> PyInt(67890), first_name |-> PyStr(s_John), last_name |-> PyStr(s_Doe)],
     [id |-> PyInt(67891), first_name |-> PyStr(s_Nora), last_name |-> Missing]}

Rosters ==
    {r \in UNION {[1..k -> FriendPool] : k \in 0..MaxRoster} :
        \A i, j \in 1..Len(r) : i # j => r[i].id # r[j].id}

\* participant entries the extraction may return: resolvable names, an
\* unmatched name, the empty name, an entry with no name, with and without shares
Entry(name, share) == [name |-> name, share |-> share, id |-> Missing]

Entries ==
    {Entry(PyStr(s_me), None), Entry(PyStr(s_me), PyInt(24999)),
     Entry(PyStr(s_John), None), Entry(PyStr(s_John), PyInt(25000)),
     Entry(PyStr(s_John), PyInt(30000)), Entry(PyStr(s_Nora), PyInt(25000)),
     Entry(PyStr(s_Bobb), None), Entry(PyStr(s_Bobb), PyInt(25000)),
     Entry(PyStr(<<>>), None), Entry(None, None), Entry(Missing, PyInt(25000))}

Amounts == {Missing, PyInt(50000)}
Payers == {Missing, PyStr(s_me), PyStr(s_John), PyStr(s_Bobb)}

Garbage == [isdict |-> FALSE, amount |-> Missing, payer |-> Missing, participants |-> <<>>]

\* what parse_expense_from_text may return (untrusted)
Drafts ==
    {Garbage} \cup
    [isdict : {TRUE}, amount : Amounts, payer : Payers,
     participants : UNION {[1..k -> Entries] : k \in 0..MaxParts}]

\* message texts as received (before .strip())
Texts ==
    {<<"n","o">>, <<" ","N"," ">>, s_John, s_me, s_Charlie, <<>>,
     <<"/","s","t","a","r","t">>, <<"/","h","e","l","p">>,
     <<"s","h","o","w"," ","b","a","l","a","n","c","e","s">>,
     <<"l","u","n","c","h"," ","5","0","0">>}

-----------------------------------------------------------------------------
(* The request being handled *)

Fresh(pc, chat, text) ==
    [pc |-> pc, chat |-> chat, text |-> text, branch |-> "", ran |-> {},
     sent |-> <<>>, ret |-> "", parsed |-> <<>>, friends |-> <<>>, self |-> <<>>,
     found |-> <<>>, norm |-> <<>>, submitted |-> <<>>, ledger |-> "", note |-> ""]

\* no request is being handled (requests are handled one at a time)
Idle == h.pc = "idle"

\* the test of main.py:400 never finding the entry
HasPending_never(c) == FALSE

\* main.py:400: chat_id in pending_new_friend
HasPending(c) == pending_new_friend[c] # <<>>
Pending(c) == pending_new_friend[c][1]

Init ==
    /\ pending_new_friend = [c \in Chats |-> <<>>]
    /\ user_tokens = [c \in Chats |-> <<>>]
    /\ h = Fresh("idle", <<>>, <<>>)

\* callback_oauth, main.py:128-158: set_user_token for the chat
callback_oauth ==
    /\ \E c \in Chats :
          /\ user_tokens[c] = <<>>
          /\ user_tokens' = [user_tokens EXCEPT ![c] = <<Account(c)>>]
          /\ UNCHANGED <<pending_new_friend, h>>

-----------------------------------------------------------------------------
(* telegram_webhook, main.py:381-628.  Each action runs the handler from one
   await to the next; a message is (chat id, text as received). *)

CancelWords == {<<"n","o">>, <<"n">>}

\* main.py:397 and 403
Reply(raw) == Strip(Strip(raw))

\* the comparison of main.py:404 without .lower()
IsCancel_case(raw) == Reply(raw) \in CancelWords

\* main.py:403-404
IsCancel(raw) == Lower(Reply(raw)) \in CancelWords

\* main.py:412
MatchedId(c, raw) ==
    match_name_to_user_id(PyStr(Reply(raw)), Pending(c).friends,
                          Pending(c).self_user_id, Pending(c).self_name)

\* part["name"] of an entry without the key raises KeyError
FirstKeyError(parts) ==
    IF \E i \in 1..Len(parts) : parts[i].name.t = "missing"
    THEN CHOOSE i \in 1..Len(parts) :
            /\ parts[i].name.t = "missing"
            /\ \A j \in 1..(i - 1) : parts[j].name.t # "missing"
    ELSE Len(parts) + 1

\* main.py:416-418: the loop renames the entries named friend_name, in place,
\* up to the entry at which it raises
SubstituteName(parts, friend_name, reply) ==
    [i \in 1..Len(parts) |->
        IF i < FirstKeyError(parts) /\ parts[i].name = friend_name
        THEN [parts[i] EXCEPT !.name = reply]
        ELSE parts[i]]

\* main.py:431-434: the same loop, which also gives the entries the fake id
SubstituteNew(parts, friend_name, new_name, fake_id) ==
    [i \in 1..Len(parts) |->
        IF i < FirstKeyError(parts) /\ parts[i].name = friend_name
        THEN [parts[i] EXCEPT !.name = new_name, !.id = fake_id]
        ELSE parts[i]]

\* the id of main.py:430 built from the lowered reply
FakeId_lower(reply) == PyStr(<<"n","e","w",":">> \o Lower(reply))

\* main.py:430
FakeId(reply) == PyStr(<<"n","e","w",":">> \o reply)

\* main.py:401-407: a pending entry and the reply is "no"/"n"
webhook_cancel ==
    /\ Idle
    /\ \E c \in Chats, raw \in Texts :
          /\ HasPending(c)
          /\ IsCancel(raw)
          /\ h' = [Fresh("cancel_send", c, Strip(raw)) EXCEPT !.branch = "cancel",
                      !.found = <<Pending(c)>>]
          /\ UNCHANGED <<pending_new_friend, user_tokens>>

\* main.py:405-407: the send completes, then del pending_new_friend[chat_id]
webhook_cancel_done ==
    /\ h.pc = "cancel_send"
    /\ h' = [h EXCEPT !.pc = "done", !.sent = Append(@, "cancelled"),
                      !.ret = IF HasPending(h.chat) THEN "ok" ELSE "KeyError"]
    /\ pending_new_friend' = [pending_new_friend EXCEPT ![h.chat] = <<>>]
    /\ UNCHANGED user_tokens

\* the part of both reply branches after the substitution loop: normalize, then
\* create_splitwise_expense up to its POST (main.py:419-421, 435-437, 222-258)
ReplyRun(c, raw, branch, parts2, friends2, allow_fake_id) ==
    LET p == Pending(c)
        parsed2 == [p.parsed EXCEPT !.participants = parts2]
        res == normalize_expense(parsed2, friends2, p.self_user_id, p.self_name,
                                 None, allow_fake_id)
        base == [Fresh("reply_send", c, Strip(raw)) EXCEPT
                    !.branch = branch, !.found = <<p>>, !.parsed = <<parsed2>>,
                    !.friends = friends2,
                    !.self = <<[splitwise_id |-> p.self_user_id,
                                splitwise_name |-> p.self_name]>>]
    IN  IF FirstKeyError(p.parsed.participants) <= Len(p.parsed.participants)
        THEN [base EXCEPT !.pc = "done", !.ret = "KeyError", !.parsed = <<>>,
                          !.friends = <<>>]
        ELSE IF res.status = "ok" /\ user_tokens[c] # <<>>
        THEN [base EXCEPT !.pc = "reply_create", !.ran = {"normalize"}, !.norm = <<res>>]
        ELSE [base EXCEPT !.ran = {"normalize"}, !.norm = <<res>>, !.note = "error"]

\* main.py:408-421: the reply matches the requesting user or a friend
webhook_reply_existing ==
    /\ Idle
    /\ \E c \in Chats, raw \in Texts :
          /\ HasPending(c)
          /\ ~IsCancel(raw)
          /\ MatchedId(c, raw) # None
          /\ LET p == Pending(c)
                 parts2 == SubstituteName(p.parsed.participants, p.friend_name,
                                          PyStr(Reply(raw)))
             IN  /\ h' = ReplyRun(c, raw, "matched", parts2, p.friends, FALSE)
                 /\ pending_new_friend' =
                       [pending_new_friend EXCEPT ![c] = <<[p EXCEPT !.parsed.participants = parts2]>>]
          /\ UNCHANGED user_tokens

\* main.py:427-437: no match, the reply names a new friend
webhook_reply_new ==
    /\ Idle
    /\ \E c \in Chats, raw \in Texts :
          /\ HasPending(c)
          /\ ~IsCancel(raw)
          /\ MatchedId(c, raw) = None
          /\ LET p == Pending(c)
                 fake_id == FakeId(Reply(raw))
                 parts2 == SubstituteNew(p.parsed.participants, p.friend_name,
                                         PyStr(Reply(raw)), fake_id)
                 friends2 == Append(p.friends, [id |-> fake_id, first_name |-> PyStr(Reply(raw)),
                                                last_name |-> Missing])
             IN  /\ h' = ReplyRun(c, raw, "new_friend", parts2, friends2, TRUE)
                 /\ pending_new_friend' =
                       [pending_new_friend EXCEPT ![c] = <<[p EXCEPT !.parsed.participants = parts2]>>]
          /\ UNCHANGED user_tokens

LedgerResults == {"ok", "errors", "fail"}

\* main.py:260-267 and 421-424 / 437-440: the POST returns or raises
reply_create_done ==
    /\ h.pc = "reply_create"
    /\ \E result \in LedgerResults :
          /\ h' = [h EXCEPT !.pc = "reply_send",
                            !.ran = @ \cup {"create_splitwise_expense"},
                            !.submitted = <<create_splitwise_expense(h.norm[1])>>,
                            !.ledger = result,
                            !.note = IF result = "fail" THEN "error" ELSE "added"]
          /\ UNCHANGED <<pending_new_friend, user_tokens>>

\* main.py:422-426 and 438-442: the send completes, then del and return
reply_send_done ==
    /\ h.pc = "reply_send"
    /\ h' = [h EXCEPT !.pc = "done",
                      !.sent = Append(@, IF h.note = "added" THEN "expense_added"
                                         ELSE "error_adding"),
                      !.ret = IF HasPending(h.chat) THEN "ok" ELSE "KeyError"]
    /\ pending_new_friend' = [pending_new_friend EXCEPT ![h.chat] = <<>>]
    /\ UNCHANGED user_tokens

\* main.py:391-394: an update without a message
webhook_no_message ==
    /\ Idle
    /\ h' = [Fresh("done", <<>>, <<>>) EXCEPT !.ret = "ok", !.branch = "no_message"]
    /\ UNCHANGED <<pending_new_friend, user_tokens>>

\* main.py:444-451
webhook_start ==
    /\ Idle
    /\ \E c \in Chats, raw \in Texts :
          /\ ~HasPending(c)
          /\ StartsWith(Strip(raw), <<"/","s","t","a","r","t">>)
          /\ h' = [Fresh("done", c, Strip(raw)) EXCEPT !.branch = "start", !.ran = {"start_oauth"},
                      !.sent = <<"authorize">>, !.ret = "ok"]
          /\ UNCHANGED <<pending_new_friend, user_tokens>>

\* main.py:453-457
webhook_unauthorized ==
    /\ Idle
    /\ \E c \in Chats, raw \in Texts :
          /\ ~HasPending(c)
          /\ ~StartsWith(Strip(raw), <<"/","s","t","a","r","t">>)
          /\ user_tokens[c] = <<>>
          /\ h' = [Fresh("done", c, Strip(raw)) EXCEPT !.branch = "unauthorized",
                      !.ran = {"get_user_token"}, !.sent = <<"not_authorized">>, !.ret = "ok"]
          /\ UNCHANGED <<pending_new_friend, user_tokens>>

\* main.py:459-491: a command; its handler's requests succeed or fail
webhook_command ==
    /\ Idle
    /\ \E c \in Chats, raw \in Texts, io_ok \in BOOLEAN :
          /\ ~HasPending(c)
          /\ ~StartsWith(Strip(raw), <<"/","s","t","a","r","t">>)
          /\ user_tokens[c] # <<>>
          /\ parse_command_regex(Strip(raw)) # NoCommand
          /\ h' = IF parse_command_regex(Strip(raw)) = IndexErr
                  THEN [Fresh("done", c, Strip(raw)) EXCEPT !.branch = "command",
                           !.ran = {"get_user_token"}, !.ret = "IndexError"]
                  ELSE [Fresh("done", c, Strip(raw)) EXCEPT !.branch = "command",
                           !.ran = {"get_user_token", "command"},
                           !.sent = <<IF io_ok THEN "command_reply" ELSE "command_error">>,
                           !.ret = "ok"]
          /\ UNCHANGED <<pending_new_friend, user_tokens>>

\* main.py:493-495: not a command, awaiting get_splitwise_friends.  From here on
\* the text goes only to the extraction, the memory store and the search, none
\* of which the model holds, so the request does not keep it.
webhook_expense ==
    /\ Idle
    /\ \E c \in Chats, raw \in Texts :
          /\ ~HasPending(c)
          /\ ~StartsWith(Strip(raw), <<"/","s","t","a","r","t">>)
          /\ user_tokens[c] # <<>>
          /\ parse_command_regex(Strip(raw)) = NoCommand
          /\ h' = [Fresh("friends", c, <<>>) EXCEPT !.branch = "expense",
                      !.ran = {"get_user_token"}, !.self = user_tokens[c]]
          /\ UNCHANGED <<pending_new_friend, user_tokens>>

\* main.py:495, 582-628: the roster request fails; the generic error, then the search
expense_friends_fail ==
    /\ h.pc = "friends"
    /\ h' = [h EXCEPT !.pc = "done", !.ran = @ \cup {"get_splitwise_friends", "search"},
                      !.sent = <<"error_processing", "search_reply">>, !.ret = "ok"]
    /\ UNCHANGED <<pending_new_friend, user_tokens>>

\* main.py:496, 200-219, 560-628: the extraction raises HTTPException(500)
expense_parse_fail ==
    /\ h.pc = "friends"
    /\ \E roster \in Rosters :
          /\ h' = [h EXCEPT !.pc = "done", !.friends = roster,
                            !.ran = @ \cup {"get_splitwise_friends", "parse_expense_from_text",
                                            "search"},
                            !.sent = <<"error_detail", "search_reply">>, !.ret = "ok"]
          /\ UNCHANGED <<pending_new_friend, user_tokens>>

\* main.py:495-500, 332-341, 560-598: roster and draft arrive, normalize_expense
\* runs (it stores the pending entry itself), then create_splitwise_expense
\* runs up to its POST
expense_normalize ==
    /\ h.pc = "friends"
    /\ \E roster \in Rosters, draft \in Drafts :
          /\ LET me == h.self[1]
                 res == normalize_expense(draft, roster, me.splitwise_id, me.splitwise_name,
                                          PyStr(h.chat), FALSE)
                 ran2 == h.ran \cup {"get_splitwise_friends", "parse_expense_from_text",
                                     "normalize"}
                 got == [h EXCEPT !.friends = roster, !.parsed = <<draft>>, !.norm = <<res>>]
             IN  /\ h' = CASE res.status = "ok" /\ user_tokens[h.chat] # <<>> ->
                                [got EXCEPT !.pc = "create", !.ran = ran2]
                           [] res.status = "pending" ->
                                [got EXCEPT !.pc = "done", !.ran = ran2,
                                            !.sent = <<"ask_correction">>, !.ret = "ok"]
                           [] res.status = "type_error" ->
                                [got EXCEPT !.pc = "done", !.ran = ran2 \cup {"search"},
                                            !.sent = <<"error_processing", "search_reply">>,
                                            !.ret = "ok"]
                           [] OTHER ->
                                [got EXCEPT !.pc = "done", !.ran = ran2 \cup {"search"},
                                            !.sent = <<"error_detail", "search_reply">>,
                                            !.ret = "ok"]
                 /\ pending_new_friend' =
                       IF res.status = "pending"
                       THEN [pending_new_friend EXCEPT ![h.chat] =
                                <<[friend_name |-> res.unknown, parsed |-> draft,
                                   friends |-> roster, self_user_id |-> me.splitwise_id,
                                   self_name |-> me.splitwise_name]>>]
                       ELSE pending_new_friend
          /\ UNCHANGED user_tokens

\* main.py:500-559 and 560-628: the POST returns (with or without errors) or raises
expense_create_done ==
    /\ h.pc = "create"
    /\ \E result \in LedgerResults :
          /\ h' = [h EXCEPT !.pc = "done",
                            !.ran = @ \cup {"create_splitwise_expense"}
                                      \cup (IF result = "ok" THEN {} ELSE {"search"}),
                            !.submitted = <<create_splitwise_expense(h.norm[1])>>,
                            !.ledger = result,
                            !.sent = CASE result = "ok" -> <<"expense_added">>
                                       [] result = "errors" -> <<"failed_to_add", "search_reply">>
                                       [] OTHER -> <<"error_detail", "search_reply">>,
                            !.ret = "ok"]
          /\ UNCHANGED <<pending_new_friend, user_tokens>>

\* the response (or the error) has gone back to the caller; the locals are dropped
respond ==
    /\ h.pc = "done"
    /\ h' = Fresh("idle", <<>>, <<>>)
    /\ UNCHANGED <<pending_new_friend, user_tokens>>

Next ==
    \/ callback_oauth
    \/ webhook_no_message
    \/ webhook_cancel
    \/ webhook_cancel_done
    \/ webhook_reply_existing
    \/ webhook_reply_new
    \/ reply_create_done
    \/ reply_send_done
    \/ webhook_start
    \/ webhook_unauthorized
    \/ webhook_command
    \/ webhook_expense
    \/ expense_friends_fail
    \/ expense_parse_fail
    \/ expense_normalize
    \/ expense_create_done
    \/ respond

Spec == Init /\ [][Next]_vars

-----------------------------------------------------------------------------
(* match_name_to_user_id on its own: the calls of main.py:311 and main.py:322
   with any name a draft may carry, and the call of main.py:412 with any reply *)

MaxMatchRoster == 2

s_Samuel == <<"S","a","m","u","e","l">>
s_Sammy == <<"S","a","m","m","y">>

\* the name Telegram knows the requesting user by (telegram_name, main.py:161)
TelegramName == PyStr(s_Sammy)

\* roster members and a placeholder as main.py:436 appends it
MatchPool ==
    {[id |-> PyInt(67890), first_name |-> PyStr(s_John), last_name |-> PyStr(s_Doe)],
     [id |-> PyInt(67891), first_name |-> PyStr(s_Nora), last_name |-> Missing],
     [id |-> PyInt(67892), first_name |-> PyStr(s_Samuel), last_name |-> None],
     [id |-> FakeId(s_Charlie), first_name |-> PyStr(s_Charlie), last_name |-> Missing]}

MatchRosters ==
    {r \in UNION {[1..k -> MatchPool] : k \in 0..MaxMatchRoster} :
        \A i, j \in 1..Len(r) : i # j => r[i] # r[j]}

MatchNames ==
    {PyStr(s_me), PyStr(<<" ","M","E"," ">>), PyStr(<<"M","i","n","e">>),
     PyStr(<<"s","e","l","f">>), PyStr(<<"I">>), PyStr(s_Sam), PyStr(<<"s","a","m"," ">>),
     PyStr(<<"S","a">>), PyStr(s_Sammy), PyStr(s_John), PyStr(<<"d","O","E">>),
     PyStr(<<"o">>), PyStr(s_Bobb), PyStr(<<>>), PyStr(s_Charlie),
     FakeId(s_Charlie), PyStr(<<"6","7","8","9","0">>),
     PyInt(12345), PyInt(67890), PyInt(67891), PyInt(99999)}

\* self_name is absent in the call of main.py:643
MatchSelfNames == {PyStr(s_Sam), None}

InitMatch ==
    /\ pending_new_friend = [c \in Chats |-> <<>>]
    /\ user_tokens = [c \in Chats |-> <<>>]
    /\ h \in [pc : {"call"}, name : MatchNames, friends : MatchRosters,
              self_user_id : {PyInt(12345)}, self_name : MatchSelfNames,
              result : {<<>>}]

match_call ==
    /\ h.pc = "call"
    /\ h' = [h EXCEPT !.pc = "return",
                      !.result = <<match_name_to_user_id(h.name, h.friends, h.self_user_id,
                                                         h.self_name)>>]
    /\ UNCHANGED <<pending_new_friend, user_tokens>>

NextMatch == match_call

SpecMatch == InitMatch /\ [][NextMatch]_vars

-----------------------------------------------------------------------------
(* telegram_webhook with several requests in flight.  The event loop runs a
   handler from one await to the next without interruption, so the steps are
   those of the handler above, taken by any of the handlers; here h maps each
   handler to its request. *)

MaxHandlers == 2
Handlers == 1..MaxHandlers

ConcChats == {<<"1","1","1">>, <<"2","2","2">>}

ConcRoster == <<[id |-> PyInt(67890), first_name |-> PyStr(s_John), last_name |-> PyStr(s_Doe)]>>

ConcDrafts ==
    {Garbage,
     [isdict |-> TRUE, amount |-> PyInt(50000), payer |-> PyStr(s_me),
      participants |-> <<Entry(PyStr(s_John), PyInt(25000))>>],
     [isdict |-> TRUE, amount |-> PyInt(50000), payer |-> PyStr(s_me),
      participants |-> <<Entry(PyStr(s_Bobb), PyInt(25000))>>]}

ConcTexts == {<<"n","o">>, s_John, s_Charlie, <<"/","s","t","a","r","t">>}

\* what a handler still uses of its request after the first await of a branch
\* (main.py:405, 421-426, 437-442, 500-598): the text, the entry it found, the
\* draft and the roster are not read again
Kept(r) ==
    [r EXCEPT !.text = <<>>, !.found = <<>>, !.parsed = <<>>, !.friends = <<>>]

\* pending_new_friend[chat_id] = {...} with every entry of the map replaced
StorePending_all(map, chat_id, entry) == [c \in DOMAIN map |-> <<entry>>]

\* main.py:334-340: pending_new_friend[chat_id] = {...}
StorePending(map, chat_id, entry) == [map EXCEPT ![chat_id] = <<entry>>]

\* main.py:406, 425, 441: del pending_new_friend[chat_id]; the map is left as
\* it is when the key is absent (KeyError)
DelPending(map, chat_id) == [map EXCEPT ![chat_id] = <<>>]

InitConc ==
    /\ pending_new_friend = [c \in ConcChats |-> <<>>]
    /\ user_tokens = [c \in ConcChats |-> <<Account(c)>>]
    /\ h = [k \in Handlers |-> Fresh("idle", <<>>, <<>>)]

\* main.py:401-405
conc_cancel ==
    \E k \in Handlers :
        /\ h[k].pc = "idle"
        /\ \E c \in ConcChats, raw \in ConcTexts :
              /\ HasPending(c)
              /\ IsCancel(raw)
              /\ h' = [h EXCEPT ![k] = [Fresh("cancel_send", c, <<>>) EXCEPT
                                           !.branch = "cancel"]]
              /\ UNCHANGED <<pending_new_friend, user_tokens>>

\* main.py:405-407, 422-426 and 438-442: the send completes, then the del
conc_send_done ==
    \E k \in Handlers :
        /\ h[k].pc \in {"cancel_send", "reply_send"}
        /\ h' = [h EXCEPT ![k] = [@ EXCEPT
                    !.pc = "done",
                    !.sent = Append(@, IF h[k].pc = "cancel_send" THEN "cancelled"
                                       ELSE IF h[k].note = "added" THEN "expense_added"
                                       ELSE "error_adding"),
                    !.ret = IF HasPending(h[k].chat) THEN "ok" ELSE "KeyError"]]
        /\ pending_new_friend' = DelPending(pending_new_friend, h[k].chat)
        /\ UNCHANGED user_tokens

\* main.py:408-421 and 427-437
conc_reply ==
    \E k \in Handlers :
        /\ h[k].pc = "idle"
        /\ \E c \in ConcChats, raw \in ConcTexts :
              /\ HasPending(c)
              /\ ~IsCancel(raw)
              /\ LET p == Pending(c)
                     matched == MatchedId(c, raw) # None
                     fake_id == FakeId(Reply(raw))
                     parts2 == IF matched
                               THEN SubstituteName(p.parsed.participants, p.friend_name,
                                                   PyStr(Reply(raw)))
                               ELSE SubstituteNew(p.parsed.participants, p.friend_name,
                                                  PyStr(Reply(raw)), fake_id)
                     friends2 == IF matched THEN p.friends
                                 ELSE Append(p.friends,
                                             [id |-> fake_id, first_name |-> PyStr(Reply(raw)),
                                              last_name |-> Missing])
                 IN  /\ h' = [h EXCEPT ![k] =
                                 Kept(ReplyRun(c, raw, IF matched THEN "matched" ELSE "new_friend",
                                               parts2, friends2, ~matched))]
                     /\ pending_new_friend' =
                           [pending_new_friend EXCEPT
                               ![c] = <<[p EXCEPT !.parsed.participants = parts2]>>]
              /\ UNCHANGED user_tokens

\* main.py:260-267, 421-424 and 437-440
conc_reply_create_done ==
    \E k \in Handlers :
        /\ h[k].pc = "reply_create"
        /\ \E result \in LedgerResults :
              h' = [h EXCEPT ![k] = [@ EXCEPT
                       !.pc = "reply_send",
                       !.ran = @ \cup {"create_splitwise_expense"},
                       !.submitted = <<create_splitwise_expense(h[k].norm[1])>>,
                       !.ledger = result,
                       !.note = IF result = "fail" THEN "error" ELSE "added"]]
        /\ UNCHANGED <<pending_new_friend, user_tokens>>

\* main.py:444-491: /start or a command, no pending entry
conc_command ==
    \E k \in Handlers :
        /\ h[k].pc = "idle"
        /\ \E c \in ConcChats, raw \in ConcTexts :
              /\ ~HasPending(c)
              /\ \/ StartsWith(Strip(raw), <<"/","s","t","a","r","t">>)
                 \/ parse_command_regex(Strip(raw)) # NoCommand
              /\ h' = [h EXCEPT ![k] = [Fresh("done", c, Strip(raw)) EXCEPT
                                           !.branch = "command", !.sent = <<"command_reply">>,
                                           !.ret = "ok"]]
        /\ UNCHANGED <<pending_new_friend, user_tokens>>

\* main.py:453-495
conc_expense ==
    \E k \in Handlers :
        /\ h[k].pc = "idle"
        /\ \E c \in ConcChats, raw \in ConcTexts :
              /\ ~HasPending(c)
              /\ ~StartsWith(Strip(raw), <<"/","s","t","a","r","t">>)
              /\ user_tokens[c] # <<>>
              /\ parse_command_regex(Strip(raw)) = NoCommand
              /\ h' = [h EXCEPT ![k] = [Fresh("friends", c, <<>>) EXCEPT
                                           !.branch = "expense", !.self = user_tokens[c]]]
        /\ UNCHANGED <<pending_new_friend, user_tokens>>

\* main.py:495-500, 332-341, 560-598
conc_expense_normalize ==
    \E k \in Handlers :
        /\ h[k].pc = "friends"
        /\ \E draft \in ConcDrafts :
              LET r == h[k]
                  me == r.self[1]
                  res == normalize_expense(draft, ConcRoster, me.splitwise_id,
                                           me.splitwise_name, PyStr(r.chat), FALSE)
                  got == [r EXCEPT !.norm = <<res>>]
              IN  /\ h' = [h EXCEPT ![k] =
                             CASE res.status = "ok" /\ user_tokens[r.chat] # <<>> ->
                                    [got EXCEPT !.pc = "create"]
                               [] res.status = "pending" ->
                                    [got EXCEPT !.pc = "done", !.sent = <<"ask_correction">>,
                                                !.ret = "ok"]
                               [] OTHER ->
                                    [got EXCEPT !.pc = "done",
                                                !.sent = <<"error_detail", "search_reply">>,
                                                !.ret = "ok"]]
                  /\ pending_new_friend' =
                        IF res.status = "pending"
                        THEN StorePending(pending_new_friend, r.chat,
                                          [friend_name |-> res.unknown, parsed |-> draft,
                                           friends |-> ConcRoster,
                                           self_user_id |-> me.splitwise_id,
                                           self_name |-> me.splitwise_name])
                        ELSE pending_new_friend
        /\ UNCHANGED user_tokens

\* main.py:500-559
conc_expense_create_done ==
    \E k \in Handlers :
        /\ h[k].pc = "create"
        /\ \E result \in LedgerResults :
              h' = [h EXCEPT ![k] = [@ EXCEPT
                       !.pc = "done",
                       !.submitted = <<create_splitwise_expense(h[k].norm[1])>>,
                       !.ledger = result,
                       !.sent = CASE result = "ok" -> <<"expense_added">>
                                  [] result = "errors" -> <<"failed_to_add", "search_reply">>
                                  [] OTHER -> <<"error_detail", "search_reply">>,
                       !.ret = "ok"]]
        /\ UNCHANGED <<pending_new_friend, user_tokens>>

\* the response (or the error) has gone back to the caller: the ASGI server
\* takes the return value or the exception of telegram_webhook (main.py:381-382)
conc_respond ==
    \E k \in Handlers :
        /\ h[k].pc = "done"
        /\ h' = [h EXCEPT ![k] = Fresh("idle", <<>>, <<>>)]
        /\ UNCHANGED <<pending_new_friend, user_tokens>>

NextConc ==
    \/ conc_cancel
    \/ conc_send_done
    \/ conc_reply
    \/ conc_reply_create_done
    \/ conc_command
    \/ conc_expense
    \/ conc_expense_normalize
    \/ conc_expense_create_done
    \/ conc_respond

SpecConc == InitConc /\ [][NextConc]_vars

-----------------------------------------------------------------------------
(* The endpoints /api/parse and /api/expense, main.py:631-644, one request
   at a time.  Each action is a whole handler. *)

s_I == <<"I">>
s_abc == <<"a","b","c">>

ApiEntries ==
    {Entry(PyStr(s_me), None), Entry(PyStr(s_I), None), Entry(PyStr(s_me), PyInt(24999)),
     Entry(PyStr(s_John), None), Entry(PyStr(s_John), PyInt(25000)),
     Entry(PyStr(s_John), PyInt(60000)), Entry(PyStr(s_Doe), PyInt(30000)),
     Entry(PyStr(s_Nora), PyInt(25001)), Entry(PyStr(s_Bobb), PyInt(25000))}

ApiAmounts == {Missing, PyInt(50000), PyInt(0), PyInt(0 - 100), PyStr(s_abc)}

\* what parse_expense_from_text may return to api_parse_expense
ApiDrafts ==
    [isdict : {TRUE}, amount : ApiAmounts, payer : {PyStr(s_me)},
     participants : UNION {[1..k -> ApiEntries] : k \in 0..MaxParts}]

\* an ExpenseInput (main.py:71-75) as model_dump() hands it on: no shares
ApiExpenses ==
    [status : {"given"}, unknown : {None}, cost : {PyInt(10000), PyInt(0)},
     paid_by : {PyInt(12345)},
     owed_by : UNION {[1..k -> {PyInt(12345), PyInt(67890)}] : k \in 0..MaxParts},
     shares : {EmptyDict}]

\* main.py:638-640: no token, HTTP 401
api_parse_unauthorized ==
    /\ Idle
    /\ \E c \in Chats :
          /\ user_tokens[c] = <<>>
          /\ h' = [Fresh("done", c, <<>>) EXCEPT !.branch = "api_parse",
                      !.ran = {"get_user_token"}, !.ret = "HTTP401"]
    /\ UNCHANGED <<pending_new_friend, user_tokens>>

\* main.py:641-642: the roster request or the extraction raises
api_parse_fail ==
    /\ Idle
    /\ \E c \in Chats :
          /\ user_tokens[c] # <<>>
          /\ h' = [Fresh("done", c, <<>>) EXCEPT !.branch = "api_parse",
                      !.ran = {"get_user_token", "get_splitwise_friends"},
                      !.ret = "HTTP500"]
    /\ UNCHANGED <<pending_new_friend, user_tokens>>

\* main.py:636-644: normalize_expense(parsed, friends, token["splitwise_id"]),
\* without self_name and without chat_id; self holds what it is called with
api_parse_expense ==
    /\ Idle
    /\ \E c \in Chats, roster \in Rosters, draft \in ApiDrafts :
          /\ user_tokens[c] # <<>>
          /\ LET uid == user_tokens[c][1].splitwise_id
                 res == normalize_expense(draft, roster, uid, None, None, FALSE)
             IN  h' = [Fresh("done", c, <<>>) EXCEPT
                          !.branch = "api_parse",
                          !.ran = {"get_user_token", "get_splitwise_friends",
                                   "parse_expense_from_text", "normalize"},
                          !.friends = roster, !.parsed = <<draft>>,
                          !.self = <<[splitwise_id |-> uid, splitwise_name |-> None]>>,
                          !.norm = <<res>>,
                          !.ret = CASE res.status = "ok" -> "ok"
                                    [] res.status = "type_error" -> "HTTP500"
                                    [] OTHER -> "HTTP400"]
    /\ UNCHANGED <<pending_new_friend, user_tokens>>

\* main.py:631-634 and 221-267: the expense goes to create_splitwise_expense
\* as it is; norm holds what was handed over
api_create_expense ==
    /\ Idle
    /\ \E c \in Chats, expense \in ApiExpenses, result \in LedgerResults :
          h' = IF user_tokens[c] = <<>>
               THEN [Fresh("done", c, <<>>) EXCEPT !.branch = "api_expense",
                        !.ran = {"create_splitwise_expense"}, !.norm = <<expense>>,
                        !.ret = "HTTP401"]
               ELSE [Fresh("done", c, <<>>) EXCEPT !.branch = "api_expense",
                        !.ran = {"create_splitwise_expense"}, !.norm = <<expense>>,
                        !.submitted = <<create_splitwise_expense(expense)>>,
                        !.ledger = result,
                        !.ret = IF result = "fail" THEN "HTTP502" ELSE "ok"]
    /\ UNCHANGED <<pending_new_friend, user_tokens>>

NextApi ==
    \/ callback_oauth
    \/ api_parse_unauthorized
    \/ api_parse_fail
    \/ api_parse_expense
    \/ api_create_expense
    \/ respond

SpecApi == Init /\ [][NextApi]_vars

-----------------------------------------------------------------------------
(* The claims *)

ReplyBranches == {"cancel", "matched", "new_friend"}

\* normalize_expense has returned a Resolved Expense to the request being handled
Returned == h.norm # <<>> /\ h.norm[1].status = "ok"
Expense == h.norm[1]
Me == h.self[1].splitwise_id
Draft == h.parsed[1]

\* C1: every Resolved Expense returned by normalize_expense, on the first pass
\* and on the retry after a reply, has |sum(shares.values()) - cost| <= 0.01.
C1_SharesSumToCost ==
    Returned => Abs(SumValues(Expense.shares) - Expense.cost.n) <= Eps

\* a retry after a matching reply returns an expense whose shares are within
\* the tolerance of the cost without being equal to it
C1_Witness ==
    /\ Returned
    /\ h.branch = "matched"
    /\ SumValues(Expense.shares) # Expense.cost.n

\* C2 as claimed: in every Resolved Expense every id of owed_by has an entry
\* in shares, and every entry of shares belongs to an id of owed_by.
C2_EveryParticipantHasShare ==
    Returned =>
        /\ \A i \in 1..Len(Expense.owed_by) : Key(Expense.owed_by[i]) \in DOMAIN Expense.shares
        /\ \A k \in DOMAIN Expense.shares :
              \E i \in 1..Len(Expense.owed_by) : Key(Expense.owed_by[i]) = k

ScenarioA ==
    [isdict |-> TRUE, amount |-> PyInt(50000), payer |-> PyStr(s_me),
     participants |-> <<Entry(PyStr(s_John), None)>>]

\* C3 as claimed: for the draft of amount 500.00, payer "me" and the one
\* participant John without a share, against a roster that lists John, the
\* Resolved Expense has shares 250.00 for the requesting user and 250.00 for John.
C3_EqualSplitScenario ==
    (/\ Returned
     /\ h.parsed = <<ScenarioA>>
     /\ \E i \in 1..Len(h.friends) : h.friends[i].first_name = PyStr(s_John))
    => /\ DictGet(Expense.shares, Key(PyInt(12345)), None) = PyInt(25000)
       /\ DictGet(Expense.shares, Key(PyInt(67890)), None) = PyInt(25000)

\* C4: the requesting user's id is in owed_by of every Resolved Expense.
C4_SelfIsParticipant ==
    Returned => InList(Me, Expense.owed_by)

\* a Resolved Expense for a draft that lists a friend but not the requesting user
C4_Witness ==
    /\ Returned
    /\ Len(Draft.participants) >= 1
    /\ Len(Expense.owed_by) = Len(Draft.participants) + 1
    /\ Expense.owed_by[Len(Expense.owed_by)] = Me

\* the normalization of the message being handled got past the payer and met,
\* in its participants loop, a name the Identity Resolver does not match
MeetsUnmatched ==
    /\ h.norm # <<>>
    /\ Draft.isdict
    /\ Get(Draft.payer) # None
    /\ match_name_to_user_id(Get(Draft.payer), h.friends, Me, h.self[1].splitwise_name) # None
    /\ \E i \in 1..Len(Draft.participants) :
          /\ Get(Draft.participants[i].name) # None
          /\ match_name_to_user_id(Get(Draft.participants[i].name), h.friends, Me,
                                   h.self[1].splitwise_name) = None
          /\ \A j \in 1..(i - 1) : Get(Draft.participants[j].name) # None

\* C5 as claimed: when the normalization of a new expense message meets an
\* unmatched participant name, a pending entry with the draft and the roster
\* is stored for the conversation, the user is asked for a correction and
\* nothing is submitted to the ledger.
C5_UnmatchedNameAsks ==
    (h.branch = "expense" /\ MeetsUnmatched)
    => /\ h.pc = "done"
       /\ pending_new_friend[h.chat] # <<>>
       /\ pending_new_friend[h.chat][1].parsed = Draft
       /\ pending_new_friend[h.chat][1].friends = h.friends
       /\ h.sent = <<"ask_correction">>
       /\ h.submitted = <<>>

\* C6: while a conversation has a pending entry its next message is taken by
\* one of the reply branches, and a request in a reply branch runs nothing but
\* the re-normalization and the submission: no command handler, no
\* authorization check, no extraction.
C6_PendingConsumesNext ==
    /\ [][\A c \in Chats :
            (pending_new_friend[c] # <<>> /\ h.pc = "idle" /\ h'.pc # "idle" /\ h'.chat = c)
            => h'.branch \in ReplyBranches]_vars
    /\ [](h.branch \in ReplyBranches
          => h.ran \subseteq {"normalize", "create_splitwise_expense"})

\* "/start" received while an entry was pending has been handled as a reply
C6_Witness ==
    /\ h.branch = "new_friend"
    /\ h.text = <<"/","s","t","a","r","t">>
    /\ h.pc = "done"
    /\ h.found # <<>>

\* C7 as claimed: when the handler of a message received with a pending entry
\* completes, the conversation has no pending entry.
C7_ReplyClearsPending ==
    (h.pc = "done" /\ h.branch \in ReplyBranches) => pending_new_friend[h.chat] = <<>>

\* C8: a reply that is "no" or "n" after trimming, in any letter case, is
\* handled by the cancel branch: nothing is submitted, and when the handler is
\* done the cancellation message has been sent and the pending entry is gone.
C8_NoCancels ==
    (h.found # <<>> /\ Lower(h.text) \in {<<"n","o">>, <<"n">>})
    => /\ h.branch = "cancel"
       /\ h.submitted = <<>>
       /\ h.ran = {}
       /\ h.pc = "done" => (pending_new_friend[h.chat] = <<>> /\ h.sent = <<"cancelled">>)

\* an upper-case "N" has cancelled although a friend's name contains the letter
C8_Witness ==
    /\ h.branch = "cancel"
    /\ h.pc = "done"
    /\ h.text = <<"N">>
    /\ \E i \in 1..Len(h.found[1].friends) :
          Contains(<<"n">>, Lower(Get(h.found[1].friends[i].first_name).s))

\* the id the reply resolves to against the captured roster
ResolvedId ==
    match_name_to_user_id(PyStr(h.text), h.found[1].friends,
                          h.found[1].self_user_id, h.found[1].self_name)

\* the place of the unmatched name in the captured draft
UnmatchedAt ==
    CHOOSE i \in 1..Len(h.found[1].parsed.participants) :
        /\ h.found[1].parsed.participants[i].name = h.found[1].friend_name
        /\ \A j \in 1..(i - 1) :
              h.found[1].parsed.participants[j].name # h.found[1].friend_name

\* C9 as claimed: the expense submitted after a reply that resolves has the
\* resolved id in the place of the unmatched name, with that entry's explicit
\* share when it had one.
C9_ResolvedReplySubmitted ==
    (h.branch = "matched" /\ h.submitted # <<>>)
    => LET e == h.found[1].parsed.participants[UnmatchedAt]
           u == h.submitted[1].users
       IN  /\ UnmatchedAt <= Len(u)
           /\ u[UnmatchedAt].user_id = ResolvedId
           /\ Get(e.share) # None => u[UnmatchedAt].owed_share = Get(e.share).n

\* C10: a reply that neither cancels nor resolves is handled by the new-friend
\* branch; the roster it normalizes against ends with a placeholder named
\* after the reply whose id "new:<reply>" is no roster id and not the
\* requesting user's id, and a submitted expense lists that id.
C10_PlaceholderSubmitted ==
    LET fid == PyStr(<<"n","e","w",":">> \o h.text)
    IN  /\ (h.found # <<>> /\ Lower(h.text) \notin {<<"n","o">>, <<"n">>} /\ ResolvedId = None)
           => h.branch = "new_friend"
        /\ (h.branch = "new_friend" /\ h.submitted # <<>>)
           => /\ \E i \in 1..Len(h.submitted[1].users) : h.submitted[1].users[i].user_id = fid
              /\ fid # h.found[1].self_user_id
              /\ \A i \in 1..Len(h.found[1].friends) : h.found[1].friends[i].id # fid
              /\ h.friends[Len(h.friends)].id = fid
              /\ h.friends[Len(h.friends)].first_name = PyStr(h.text)

\* "Charlie" has been submitted as a placeholder next to a roster friend
C10_Witness ==
    /\ h.branch = "new_friend"
    /\ h.submitted # <<>>
    /\ h.text = s_Charlie
    /\ h.found[1].friends # <<>>
    /\ h.pc = "done"

\* ---- the outcomes of normalization ----

SelfName == h.self[1].splitwise_name

\* the payer of the draft being normalized, as the Identity Resolver resolves it
PayerId == match_name_to_user_id(Get(Draft.payer), h.friends, Me, SelfName)

\* the participants of the draft being normalized, as the loop resolves them
Loop ==
    ParticipantsLoop(Draft.participants, h.friends, Me, SelfName,
                     h.branch = "new_friend", <<>>, EmptyDict)

\* the draft has a resolved payer and a numeric amount
DraftOk ==
    /\ h.norm # <<>>
    /\ Draft.isdict
    /\ Get(Draft.payer) # None
    /\ Get(Draft.amount).t = "int"
    /\ PayerId # None

\* the loop resolved every participant, none of them the requesting user, and
\* the explicit shares are numbers
SelfAbsentIn(loop) ==
    /\ loop.st = "ok"
    /\ AllNumeric(loop.shares)
    /\ ~InList(Me, loop.owed_by)

SelfAbsent == DraftOk /\ SelfAbsentIn(Loop)

\* C11: when the requesting user is not among the resolved participants and
\* the explicit shares sum to more than the cost, normalization fails with
\* "Participant shares exceed total cost": nothing is submitted, and the
\* conversation has no pending entry once the message is handled.
C11_SharesExceedCost ==
    DraftOk =>
        LET loop == Loop
        IN  (SelfAbsentIn(loop) /\ SumValues(loop.shares) > Get(Draft.amount).n)
            => /\ Expense.status = "shares_exceed"
               /\ h.submitted = <<>>
               /\ h.pc # "reply_create"
               /\ (h.branch = "expense" \/ h.pc = "done") => pending_new_friend[h.chat] = <<>>

\* John's 300.00 and Nora's 250.00 exceed the 500.00 of a new expense message
C11_Witness ==
    /\ h.branch = "expense"
    /\ h.pc = "done"
    /\ SelfAbsent
    /\ Len(Draft.participants) = 2
    /\ SumValues(Loop.shares) = 55000
    /\ Expense.status = "shares_exceed"

\* C12 as claimed: a draft that is a structured object with a payer and
\* without an amount fails with "No amount found", whatever its participants
\* and its payer resolve to, and no pending entry is created.
C12_MissingAmountFirst ==
    (/\ h.branch = "expense"
     /\ h.norm # <<>>
     /\ Draft.isdict
     /\ Get(Draft.payer) # None
     /\ Get(Draft.amount) = None)
    => /\ Expense.status = "no_amount"
       /\ pending_new_friend[h.chat] = <<>>

\* C13: a new expense message whose payer name does not resolve fails with
\* "Could not match payer name" and nothing else happens: no pending entry,
\* nothing submitted, the error reported, also when a participant name of the
\* draft does not resolve either.
C13_UnresolvedPayerFails ==
    (/\ h.branch = "expense"
     /\ h.norm # <<>>
     /\ Draft.isdict
     /\ Get(Draft.payer) # None
     /\ PayerId = None)
    => /\ Expense.status = "payer_unmatched"
       /\ pending_new_friend[h.chat] = <<>>
       /\ h.submitted = <<>>
       /\ h.pc = "done"
       /\ h.sent = <<"error_detail", "search_reply">>

\* payer Bobb and participant Bobb, neither in the roster
C13_Witness ==
    /\ h.branch = "expense"
    /\ h.norm # <<>>
    /\ Draft.isdict
    /\ Draft.payer = PyStr(s_Bobb)
    /\ PayerId = None
    /\ Draft.participants # <<>>
    /\ Draft.participants[1].name = PyStr(s_Bobb)
    /\ h.friends # <<>>

\* C14: a Resolved Expense for a draft whose resolved participants do not
\* include the requesting user has the requesting user appended to owed_by
\* with the share cost - sum(explicit shares), which is not negative.
C14_SelfGetsRemaining ==
    (Returned /\ DraftOk) =>
        LET loop == Loop
            remaining == Get(Draft.amount).n - SumValues(loop.shares)
        IN  SelfAbsentIn(loop)
            => /\ remaining >= 0
               /\ Expense.owed_by = Append(loop.owed_by, Me)
               /\ Expense.shares = DictSet(loop.shares, Key(Me), PyInt(remaining))

\* amount 500.00 with John at 300.00 gives the requesting user 200.00
C14_Witness ==
    /\ Returned
    /\ SelfAbsent
    /\ Draft.participants = <<Entry(PyStr(s_John), PyInt(30000))>>
    /\ DictGet(Expense.shares, Key(Me), None) = PyInt(20000)

\* ---- the Identity Resolver ----

MatchReturned == h.pc = "return"

\* the input as the resolver compares it
Trimmed == Strip(Lower(h.name.s))

\* C15: for a textual input the resolver returns the requesting user's id when
\* the trimmed, lower-cased input is "me", "mine", "self" or "i" or the
\* requesting user's name; otherwise the id of the first roster member, in
\* roster order, whose first or last name contains it; otherwise None.
C15_MatchSemantics ==
    (MatchReturned /\ h.name.t = "str")
    => LET isSelf == \/ Trimmed \in {<<"m","e">>, <<"m","i","n","e">>, <<"s","e","l","f">>, <<"i">>}
                     \/ h.self_name.t = "str" /\ Trimmed = Lower(h.self_name.s)
           Has(i) == \/ /\ h.friends[i].first_name.t = "str"
                        /\ Contains(Trimmed, Lower(h.friends[i].first_name.s))
                     \/ /\ h.friends[i].last_name.t = "str"
                        /\ Contains(Trimmed, Lower(h.friends[i].last_name.s))
           hits == {i \in 1..Len(h.friends) : Has(i)}
       IN  h.result[1] = IF isSelf THEN h.self_user_id
                         ELSE IF hits # {}
                              THEN h.friends[CHOOSE i \in hits : \A j \in hits : i <= j].id
                              ELSE None

\* "sam " is the requesting user although Samuel is first in the roster
C15_Witness ==
    /\ MatchReturned
    /\ h.name = PyStr(<<"s","a","m"," ">>)
    /\ Len(h.friends) = 2
    /\ h.friends[1].first_name = PyStr(s_Samuel)
    /\ h.self_name = PyStr(s_Sam)
    /\ h.result = <<h.self_user_id>>

\* C16 as claimed: an input that is a roster member's id or the requesting
\* user's id, integer or string, is returned unchanged.
C16_IdsResolveToThemselves ==
    (/\ MatchReturned
     /\ \/ h.name = h.self_user_id
        \/ \E i \in 1..Len(h.friends) : h.friends[i].id = h.name)
    => h.result = <<h.name>>

\* C17 as claimed: an input equal, trimmed and case-insensitively, to the name
\* the chat transport knows the requesting user by resolves to the requesting
\* user's id.
C17_AliasIsSelf ==
    (MatchReturned /\ h.name.t = "str" /\ Trimmed = Lower(TelegramName.s))
    => h.result = <<h.self_user_id>>

\* ---- the ledger submission ----

\* the paid shares of a payload, added up
RECURSIVE SumPaid(_)
SumPaid(users) ==
    IF users = <<>> THEN 0 ELSE Head(users).paid_share + SumPaid(Tail(users))

\* C18 as claimed: in every submission the payer has paid_share equal to the
\* cost and every other user paid_share 0, and the paid shares total the cost.
C18_PaidSharesTotalCost ==
    h.submitted # <<>>
    => LET p == h.submitted[1]
       IN  /\ \A i \in 1..Len(p.users) :
                 p.users[i].paid_share = IF p.users[i].user_id = Expense.paid_by
                                         THEN p.cost ELSE 0
           /\ \E i \in 1..Len(p.users) : p.users[i].user_id = Expense.paid_by
           /\ SumPaid(p.users) = p.cost

\* ---- the handler's errors ----

\* C20 as claimed: every message handled one at a time ends with the handler
\* returning ok and with a message sent to the user, and when no expense was
\* added to the ledger that message does not say one was.
C20_ErrorsAreReported ==
    (h.pc = "done" /\ h.branch \in {"expense", "cancel", "matched", "new_friend"})
    => /\ h.ret = "ok"
       /\ h.sent # <<>>
       /\ (h.submitted = <<>> \/ h.ledger # "ok")
          => \A i \in 1..Len(h.sent) : h.sent[i] # "expense_added"

\* ---- several conversations ----

\* C19: with any interleaving of the handlers, a step changes the pending
\* entry of a conversation only if it is a step of a handler of a message of
\* that conversation, and a conversation never has more than one entry.
C19_ConversationsIndependent ==
    /\ [](\A c \in DOMAIN pending_new_friend : Len(pending_new_friend[c]) <= 1)
    /\ [][\A d \in DOMAIN pending_new_friend :
            pending_new_friend'[d] # pending_new_friend[d]
            => \E k \in Handlers :
                  /\ h'[k] # h[k]
                  /\ d = IF h[k].pc = "idle" THEN h'[k].chat ELSE h[k].chat]_vars

\* both conversations await a correction while a reply of one and a
\* cancellation of the other are being handled
C19_Witness ==
    /\ \A c \in ConcChats : pending_new_friend[c] # <<>>
    /\ h[1].pc = "reply_send"
    /\ h[2].pc = "cancel_send"
    /\ h[1].chat # h[2].chat

\* ---- the Resolved Expense ----

\* C21 as claimed: every Resolved Expense has a cost above zero.
C21_CostIsPositive ==
    Returned => (Expense.cost.t = "int" /\ Expense.cost.n > 0)

\* C22 as claimed: owed_by of a Resolved Expense holds no id twice.
C22_NoDuplicateIds ==
    Returned =>
        \A i, j \in 1..Len(Expense.owed_by) :
            i # j => Expense.owed_by[i] # Expense.owed_by[j]

\* C23 as claimed: a draft whose amount is present and not a number, and
\* whose payer and participants resolve, fails with "No amount found".
C23_NonNumericAmount ==
    (/\ h.norm # <<>>
     /\ h.norm[1].status # "given"
     /\ Draft.isdict
     /\ Get(Draft.amount) # None
     /\ Get(Draft.amount).t # "int"
     /\ Get(Draft.payer) # None
     /\ PayerId # None
     /\ Loop.st = "ok")
    => Expense.status = "no_amount"

\* the owed shares of a payload, added up
RECURSIVE SumOwed(_)
SumOwed(users) ==
    IF users = <<>> THEN 0 ELSE Head(users).owed_share + SumOwed(Tail(users))

\* C24 as claimed: the owed shares of every payload built for a non-empty
\* owed_by sum to the cost to within 0.01.
C24_OwedSharesTotalCost ==
    (h.submitted # <<>> /\ h.submitted[1].users # <<>>)
    => Abs(SumOwed(h.submitted[1].users) - h.submitted[1].cost) <= Eps

\* C25: when the requesting user is among the resolved participants, the
\* Resolved Expense has the shares of the draft, except that a difference
\* between their sum and the cost above 0.01 is added to the requesting
\* user's share, after which the shares sum to the cost.
C25_SelfAbsorbsDifference ==
    (Returned /\ DraftOk) =>
        LET loop == Loop
            total == SumValues(loop.shares)
            cost == Get(Draft.amount).n
            old == DictGet(loop.shares, Key(Me), PyInt(0)).n
        IN  (AllNumeric(loop.shares) /\ InList(Me, loop.owed_by))
            => /\ Expense.owed_by = loop.owed_by
               /\ IF Abs(total - cost) > Eps
                  THEN /\ Expense.shares = DictSet(loop.shares, Key(Me), PyInt(old + cost - total))
                       /\ SumValues(Expense.shares) = cost
                  ELSE Expense.shares = loop.shares

\* the requesting user's 249.99 next to John's 250.00 is left as it is
C25_Witness ==
    /\ Returned
    /\ Len(Draft.participants) = 2
    /\ Draft.participants[1] = Entry(PyStr(s_me), PyInt(24999))
    /\ Draft.participants[2] = Entry(PyStr(s_John), PyInt(25000))
    /\ Expense.shares = DictSet(DictSet(EmptyDict, Key(Me), PyInt(24999)),
                                Key(PyInt(67890)), PyInt(25000))

\* C26 as claimed: a Resolved Expense has an element of owed_by for every
\* participant entry of the draft.
C26_NoParticipantDropped ==
    Returned => Len(Expense.owed_by) >= Len(Draft.participants)

\* C28 as claimed: when no explicit share of the draft is negative, no share
\* of the Resolved Expense is negative.
C28_SharesNotNegative ==
    (/\ Returned
     /\ \A i \in 1..Len(Draft.participants) :
           Get(Draft.participants[i].share) # None
           => Get(Draft.participants[i].share).n >= 0)
    => \A k \in DOMAIN Expense.shares : Expense.shares[k].n >= 0

\* the id entry i of the draft resolves to
EntryId(i) ==
    match_name_to_user_id(Get(Draft.participants[i].name), h.friends, Me, SelfName)

\* C30 as claimed: an entry with an explicit share whose name resolves to an
\* id other than the requesting user's, and which is the only entry for that
\* id, has that share in the Resolved Expense.
C30_OtherSharesKept ==
    Returned =>
        \A i \in 1..Len(Draft.participants) :
            (/\ Get(Draft.participants[i].name) # None
             /\ Get(Draft.participants[i].share) # None
             /\ EntryId(i) # None
             /\ EntryId(i) # Me
             /\ \A j \in 1..Len(Draft.participants) :
                   (j # i /\ Get(Draft.participants[j].name) # None) => EntryId(j) # EntryId(i))
            => DictGet(Expense.shares, Key(EntryId(i)), None) = Get(Draft.participants[i].share)

\* C29 as claimed: the resolver returns None for an input that is empty
\* after trimming.
C29_EmptyInputNotFound ==
    (MatchReturned /\ h.name.t = "str" /\ Trimmed = <<>>) => h.result = <<None>>

\* ---- two messages of one conversation ----

\* C27 as claimed: with handlers interleaving at their awaits, a handler takes
\* a reply branch for a conversation only while no other handler is in a reply
\* branch for it, so that the pending entry is consumed once, and no handler
\* ends with the KeyError of deleting an entry that is already deleted.
C27_PendingConsumedOnce ==
    /\ [](\A k \in Handlers : h[k].ret # "KeyError")
    /\ [][\A k \in Handlers :
            (h[k].pc = "idle" /\ h'[k].branch \in ReplyBranches)
            => ~\E j \in Handlers \ {k} :
                   /\ h[j].pc \in {"cancel_send", "reply_create", "reply_send"}
                   /\ h[j].chat = h'[k].chat]_vars

====
